---------------------------- MODULE Spec2Model ----------------------------
(***************************************************************************)
(* The common-node printer of prettier-move (cst/Common.ts): the registry  *)
(* that maps a node kind to a print procedure, and the print procedures,   *)
(* each a projection from a syntax node (reached through a path in the     *)
(* tree) to a prettier document.  A generic tree walk visits a node, asks  *)
(* the registry for a procedure and calls it; the procedure calls the      *)
(* recursive print callback on its children.                               *)
(*                                                                         *)
(* Beside it, the default features of the transaction builder              *)
(* (DefaultTransactionBlockFeatures): six operations on the data of a      *)
(* transaction block, each of which first runs the plugins' hooks of its   *)
(* name and then its own default logic against the client.                 *)
(***************************************************************************)
EXTENDS Integers, Sequences, FiniteSets, TLC

VARIABLES
    tree,   \* the syntax tree handed to the printer (read-only input)
    path,   \* AstPath: raw child indices from the root to the current node
    fn,     \* what the registry returned for the current node ("none": not asked yet)
    out,    \* the document the last procedure call returned (NoDoc: none yet)
    seen    \* history: one earlier call remembered as <<path, document, whether
            \* another node has been printed since>> (<<>>: none remembered)

vars == <<tree, path, fn, out, seen>>

VARIABLES
    plugins,    \* #plugins: the registered plugins, in registration order
    blockData,  \* the TransactionBlockDataBuilder the operations work on
    hook,       \* the operation in progress, or the last one called
    options,    \* the options argument of that call
    pc,         \* where that call is: in #runHook, in a plugin's hook, awaiting
                \* the client, returned or thrown
    cursor,     \* #runHook: the index of the plugin the loop is at
    pending,    \* normalizeInputs: the move calls whose function is being fetched
    response,   \* the last answer of the client
    log,        \* history: what the call did, in order
    atCall,     \* history: the block data when the operation was called
    atDefault   \* history: the block data when its default logic began

txvars ==
    <<plugins, blockData, hook, options, pc, cursor, pending, response, log,
      atCall, atDefault>>

\* No transaction block is being built.
NoTransactionBlock ==
    /\ plugins = <<>>
    /\ blockData = <<>>
    /\ hook = "none"
    /\ options = <<>>
    /\ pc = "none"
    /\ cursor = 0
    /\ pending = {}
    /\ response = <<>>
    /\ log = <<>>
    /\ atCall = <<>>
    /\ atDefault = <<>>

(***************************************************************************)
(* Syntax nodes.  Every node is a record of the same shape: its kind, its  *)
(* raw source text (leaves and tokens), whether the grammar names it, if   *)
(* it starts on a new source line, and its ordered raw children (tokens    *)
(* and comments included).                                                 *)
(***************************************************************************)
Node(type, text, named, nl, children) ==
    [type |-> type, text |-> text, isNamed |-> named, startsOnNewLine |-> nl,
     children |-> children]

NullNode == Node("null", "", FALSE, FALSE, <<>>)

\* A named node with children, a named leaf, an anonymous token, a comment.
Inner(type, children) == Node(type, "", TRUE, FALSE, children)
Leaf(type, text) == Node(type, text, TRUE, FALSE, <<>>)
Tok(type) == Node(type, type, FALSE, FALSE, <<>>)
Comment(text) == Node("block_comment", text, TRUE, FALSE, <<>>)
OnNewLine(n) == [n EXCEPT !.startsOnNewLine = TRUE]

\* Node kinds that only carry layout: filtered out of nonFormattingChildren.
FormattingKinds == {"line_comment", "block_comment", "empty_line", "next_line"}

isFormatting(n) == n.type \in FormattingKinds

Last(s) == s[Len(s)]
Front(s) == SubSeq(s, 1, Len(s) - 1)

RECURSIVE NodeAt(_, _)
NodeAt(t, p) ==
    IF p = <<>> THEN t
    ELSE IF Head(p) \in 1..Len(t.children) THEN NodeAt(t.children[Head(p)], Tail(p))
    ELSE NullNode

\* node.child(i), i counted from 0; null when there is none.
child(n, i) == IF i + 1 \in 1..Len(n.children) THEN n.children[i + 1] ELSE NullNode

\* Raw indices (from 1) of the children in the formatting-significant view.
RECURSIVE nfFrom(_, _)
nfFrom(n, i) ==
    IF i > Len(n.children) THEN <<>>
    ELSE IF n.children[i].isNamed /\ ~isFormatting(n.children[i])
         THEN <<i>> \o nfFrom(n, i + 1)
         ELSE nfFrom(n, i + 1)

nonFormattingIndices(n) == nfFrom(n, 1)

\* An AstPath as the procedures read it: the node it points at and that node's
\* neighbours under its parent.  The path of a child that does not exist
\* points at no node.
Path(node, prev, next) == [node |-> node, previousSibling |-> prev, nextSibling |-> next]

RootPath(t) == Path(t, NullNode, NullNode)

MissingPath == Path(NullNode, NullNode, NullNode)

IsMissing(path_) == path_.node = NullNode

\* The path of the raw child at index i (from 1) of node n.
ChildPath(n, i) ==
    IF i \in 1..Len(n.children)
    THEN Path(n.children[i], child(n, i - 2), child(n, i))
    ELSE MissingPath

\* path.call(f, 'nonFormattingChildren', i): the path of the i-th (from 0)
\* formatting-significant child.
nfPath(n, i) ==
    IF i + 1 \in 1..Len(nonFormattingIndices(n))
    THEN ChildPath(n, nonFormattingIndices(n)[i + 1])
    ELSE MissingPath

\* The path the walk holds for the node at raw indices p below the root t.
PathAt(t, p) ==
    IF p = <<>> THEN RootPath(t) ELSE ChildPath(NodeAt(t, Front(p)), Last(p))

(***************************************************************************)
(* Documents.  Every document is a record of the same shape: k is the      *)
(* primitive, s the text of a Text, parts the sub-documents, brk the       *)
(* shouldBreak flag of a group; threw marks the value of an expression     *)
(* whose evaluation threw (a call below it failed).                        *)
(***************************************************************************)
Doc(k, s, parts, brk) ==
    [k |-> k, s |-> s, parts |-> parts, brk |-> brk,
     threw |-> k = "fault" \/ \E i \in 1..Len(parts) : parts[i].threw]

Text(s) == Doc("text", s, <<>>, FALSE)
Concat(parts) == Doc("concat", "", parts, FALSE)
group(contents, shouldBreak) == Doc("group", "", <<contents>>, shouldBreak)
indent(contents) == Doc("indent", "", <<contents>>, FALSE)
ifBreak(breakContents, flatContents) ==
    Doc("if-break", "", <<breakContents, flatContents>>, FALSE)
line == Doc("line", "", <<>>, FALSE)
softline == Doc("softline", "", <<>>, FALSE)

\* JavaScript's undefined used where a document is expected, the hard failure
\* of a call, and "no document yet".
Undefined == Doc("undefined", "", <<>>, FALSE)
Fault == Doc("fault", "", <<>>, FALSE)
NoDoc == Doc("none", "", <<>>, FALSE)

RECURSIVE joinFrom(_, _, _)
joinFrom(separator, docs, i) ==
    IF i > Len(docs) THEN <<>>
    ELSE (IF i = 1 THEN <<>> ELSE <<separator>>) \o <<docs[i]>>
         \o joinFrom(separator, docs, i + 1)

\* join(separator, docs): the array docs with separator between its elements.
join(separator, docs) == Concat(joinFrom(separator, docs, 1))

\* Building the document threw: the call fails as a whole.
HasFault(d) == d.threw

\* The renderer, as far as the width budget leaves it determined: the token
\* sequences a document can be laid out as when its enclosing group is in the
\* given mode.  A line is a space when flat and a newline when broken, a
\* softline nothing when flat and a newline when broken; an if-break yields
\* its first part when the enclosing group is broken and its second when
\* flat; a group with shouldBreak is broken, a group inside flat content is
\* flat, and any other group is flat or broken as the width decides.
MODE_FLAT == "flat"
MODE_BREAK == "break"
NEWLINE == "\n"

cat(A, B) == {a \o b : a \in A, b \in B}

RECURSIVE layouts(_, _)
RECURSIVE layoutsFrom(_, _, _)
layoutsFrom(parts, i, mode) ==
    IF i > Len(parts) THEN {<<>>}
    ELSE cat(layouts(parts[i], mode), layoutsFrom(parts, i + 1, mode))

layouts(d, mode) ==
    CASE d.k = "text" -> IF d.s = "" THEN {<<>>} ELSE {<<d.s>>}
      [] d.k = "concat" -> layoutsFrom(d.parts, 1, mode)
      [] d.k = "indent" -> layouts(d.parts[1], mode)
      [] d.k = "line" -> IF mode = MODE_FLAT THEN {<<" ">>} ELSE {<<NEWLINE>>}
      [] d.k = "softline" -> IF mode = MODE_FLAT THEN {<<>>} ELSE {<<NEWLINE>>}
      [] d.k = "if-break" ->
            layouts(IF mode = MODE_BREAK THEN d.parts[1] ELSE d.parts[2], mode)
      [] d.k = "group" ->
            IF d.brk THEN layouts(d.parts[1], MODE_BREAK)
            ELSE IF mode = MODE_FLAT THEN layouts(d.parts[1], MODE_FLAT)
            ELSE layouts(d.parts[1], MODE_FLAT) \cup layouts(d.parts[1], MODE_BREAK)
      [] OTHER -> {}


(***************************************************************************)
(* The kinds this module owns, and the registry.                           *)
(***************************************************************************)
Common ==
    [PrimitiveType |-> "primitive_type",
     VariableIdentifier |-> "variable_identifier",
     ModuleAccess |-> "module_access",
     Identifier |-> "identifier",
     RefType |-> "ref_type",
     FunctionType |-> "function_type",
     FunctionTypeParameters |-> "function_type_parameters",
     BinaryOperator |-> "binary_operator",
     FieldIdentifier |-> "field_identifier",
     BlockIdentifier |-> "block_identifier",
     Ability |-> "ability",
     TupleType |-> "tuple_type",
     Annotation |-> "annotation",
     AnnotationItem |-> "annotation_item",
     AnnotationList |-> "annotation_list",
     AnnotationExpression |-> "annotation_expr",
     BindUnpack |-> "bind_unpack",
     BindFields |-> "bind_fields",
     BindField |-> "bind_field",
     BindList |-> "bind_list",
     BindNamedFields |-> "bind_named_fields",
     BindPositionalFields |-> "bind_positional_fields",
     BindVar |-> "bind_var",
     LambdaBindings |-> "lambda_bindings",
     Label |-> "label",
     Alias |-> "alias",
     UnaryOperator |-> "unary_op",
     FieldInitializeList |-> "field_initialize_list",
     ExpressionField |-> "exp_field"]

\* The switch of the default export: one case per member of Common, each
\* returning the procedure named for it; past the switch, null.
registered(type) ==
    CASE type = Common.PrimitiveType -> "printPrimitiveType"
      [] type = Common.VariableIdentifier -> "printVariableIdentifier"
      [] type = Common.ModuleAccess -> "printModuleAccess"
      [] type = Common.Identifier -> "printIdentifier"
      [] type = Common.RefType -> "printRefType"
      [] type = Common.FunctionType -> "printFunctionType"
      [] type = Common.FunctionTypeParameters -> "printFunctionTypeParameters"
      [] type = Common.BinaryOperator -> "printBinaryOperator"
      [] type = Common.FieldIdentifier -> "printFieldIdentifier"
      [] type = Common.Ability -> "printAbility"
      [] type = Common.TupleType -> "printTupleType"
      [] type = Common.Annotation -> "printAnnotation"
      [] type = Common.AnnotationItem -> "printAnnotationItem"
      [] type = Common.AnnotationList -> "printAnnotationList"
      [] type = Common.AnnotationExpression -> "printAnnotationExpression"
      [] type = Common.BindUnpack -> "printBindUnpack"
      [] type = Common.BindFields -> "printBindFields"
      [] type = Common.BindField -> "printBindField"
      [] type = Common.BindList -> "printBindList"
      [] type = Common.BindNamedFields -> "printBindNamedFields"
      [] type = Common.BindPositionalFields -> "printBindPositionalFields"
      [] type = Common.BindVar -> "printBindVar"
      [] type = Common.Label -> "printLabel"
      [] type = Common.Alias -> "printAlias"
      [] type = Common.BlockIdentifier -> "printBlockIdentifier"
      [] type = Common.UnaryOperator -> "printUnaryOperator"
      [] type = Common.FieldInitializeList -> "printFieldInitializeList"
      [] type = Common.ExpressionField -> "printExpressionField"
      [] type = Common.LambdaBindings -> "printLambdaBindings"
      [] OTHER -> "null"

\* A registry whose switch lost its last case.
lookupWithoutLambdaBindings(type) ==
    IF type = Common.LambdaBindings THEN "null" ELSE registered(type)

\* The default export: the procedure registered for a node kind, or "null".
lookup(type) == registered(type)

(***************************************************************************)
(* The recursive print callback and the two helpers of ../utilities.       *)
(***************************************************************************)
RECURSIVE print(_)

RECURSIVE printFrom(_, _, _)
printFrom(n, ix, j) ==
    IF j > Len(ix) THEN <<>>
    ELSE <<print(ChildPath(n, ix[j]))>> \o printFrom(n, ix, j + 1)

RECURSIVE upTo(_, _)
upTo(i, n) == IF i > n THEN <<>> ELSE <<i>> \o upTo(i + 1, n)

\* path.map(print, 'nonFormattingChildren') / path.map(print, 'children')
mapNonFormatting(path_) == printFrom(path_.node, nonFormattingIndices(path_.node), 1)

mapChildren(path_) == printFrom(path_.node, upTo(1, Len(path_.node.children)), 1)

\* The delimited document of list: the printed children docs, comma
\* separated between open and close, with a trailing comma only when broken.
delimited(docs, open, close, lineEnding) ==
    Concat(<<Text(open),
             indent(lineEnding),
             indent(join(Concat(<<Text(","), line>>), docs)),
             ifBreak(Text(","), Text("")),
             lineEnding,
             Text(close)>>)

\* The children of list after the first skipChildren.
skip(docs, skipChildren) == SubSeq(docs, skipChildren + 1, Len(docs))

\* list({path, print, options, open, close, addWhitespace, skipChildren}):
\* the formatting-significant children after the first skipChildren, between
\* the delimiters, padded inside with a line or a softline.
list(path_, open, close, addWhitespace, skipChildren) ==
    delimited(skip(mapNonFormatting(path_), skipChildren), open, close,
              IF addWhitespace THEN line ELSE softline)

\* shouldBreakFirstChild(path): the first child was written on a line of its own.
shouldBreakFirstChild(path_) ==
    /\ Len(nonFormattingIndices(path_.node)) > 0
    /\ nfPath(path_.node, 0).node.startsOnNewLine

(***************************************************************************)
(* The print procedures.                                                   *)
(***************************************************************************)
printPrimitiveType(path_) == Text(path_.node.text)

printVariableIdentifier(path_) == Text(path_.node.text)

\* A module access that prints only its formatting-significant children.
printModuleAccessSignificantOnly(path_) == Concat(mapNonFormatting(path_))

printModuleAccess(path_) == Concat(mapChildren(path_))

printIdentifier(path_) == Text(path_.node.text)

\* A reference type whose mutable marker lost its trailing space.
printRefTypeUnspaced(path_) ==
    IF child(path_.node, 0) = NullNode THEN Fault
    ELSE group(Concat((IF child(path_.node, 0).text = "&"
                       THEN <<Text("&")>> ELSE <<Text("&mut")>>)
                      \o <<print(nfPath(path_.node, 0))>>),
               FALSE)

printRefType(path_) ==
    IF child(path_.node, 0) = NullNode THEN Fault   \* child(0)! is null: .text throws
    ELSE group(Concat((IF child(path_.node, 0).text = "&"
                       THEN <<Text("&")>> ELSE <<Text("&mut ")>>)
                      \o <<print(nfPath(path_.node, 0))>>),
               FALSE)

printBinaryOperator(path_) == Text(path_.node.text)

printFieldIdentifier(path_) == Text(path_.node.text)

printAnnotation(path_) ==
    group(Concat(<<Text("#"), list(path_, "[", "]", FALSE, 0)>>), FALSE)

printAnnotationItem(path_) == Concat(mapNonFormatting(path_))

printAnnotationList(path_) ==
    Concat(<<print(nfPath(path_.node, 0)), list(path_, "(", ")", FALSE, 1)>>)

\* The callback of printAnnotationExpression, and its map over the children.
annotationOperand(path_) ==
    IF path_.node.type = "module_access" /\ path_.previousSibling.type = "::"
    THEN Concat(<<Text("::"), print(path_)>>)
    ELSE print(path_)

RECURSIVE annotationOperands(_, _, _)
annotationOperands(n, ix, j) ==
    IF j > Len(ix) THEN <<>>
    ELSE <<annotationOperand(ChildPath(n, ix[j]))>> \o annotationOperands(n, ix, j + 1)

printAnnotationExpression(path_) ==
    join(Text(" = "), annotationOperands(path_.node, nonFormattingIndices(path_.node), 1))

printAbility(path_) == Text(path_.node.text)

\* A tuple type whose trailing comma does not depend on the group breaking.
printTupleTypeTrailingComma(path_) ==
    group(Concat(<<Text("("),
                   indent(softline),
                   indent(join(Concat(<<Text(","), line>>), mapNonFormatting(path_))),
                   Text(","),
                   softline,
                   Text(")")>>),
          FALSE)

printTupleType(path_) ==
    group(Concat(<<Text("("),
                   indent(softline),
                   indent(join(Concat(<<Text(","), line>>), mapNonFormatting(path_))),
                   ifBreak(Text(","), Text("")),
                   softline,
                   Text(")")>>),
          FALSE)

printBindUnpack(path_) == Concat(mapNonFormatting(path_))

printBindFields(path_) == print(nfPath(path_.node, 0))

\* The callback of printBindField, and its map over the children.
bindFieldPart(path_) ==
    IF path_.previousSibling.type = "mut"
    THEN Concat(<<Text("mut "), print(path_)>>)
    ELSE print(path_)

RECURSIVE bindFieldParts(_, _, _)
bindFieldParts(n, ix, j) ==
    IF j > Len(ix) THEN <<>>
    ELSE <<bindFieldPart(ChildPath(n, ix[j]))>> \o bindFieldParts(n, ix, j + 1)

\* A bind_field without the special case for the rest pattern.
printBindFieldWithoutRest(path_) ==
    join(Text(": "), bindFieldParts(path_.node, nonFormattingIndices(path_.node), 1))

printBindField(path_) ==
    IF child(path_.node, 0).type = ".." THEN Text("..")
    ELSE join(Text(": "), bindFieldParts(path_.node, nonFormattingIndices(path_.node), 1))

printBindList(path_) ==
    IF Len(nonFormattingIndices(path_.node)) = 1
    THEN join(Text(" "), mapNonFormatting(path_))
    ELSE group(list(path_, "(", ")", FALSE, 0), FALSE)

\* Named fields whose group never forces the break.
printBindNamedFieldsUnforced(path_) ==
    Concat(<<Text(" "), group(list(path_, "{", "}", TRUE, 0), FALSE)>>)

printBindNamedFields(path_) ==
    Concat(<<Text(" "),
             group(list(path_, "{", "}", TRUE, 0), shouldBreakFirstChild(path_))>>)

printBindPositionalFields(path_) ==
    group(list(path_, "(", ")", FALSE, 0), shouldBreakFirstChild(path_))

\* A bind_var that never looks at its previous sibling.
printBindVarWithoutMut(path_) ==
    Concat(<<Text(""), print(nfPath(path_.node, 0))>>)

printBindVar(path_) ==
    Concat(<<IF path_.previousSibling.type = "mut"   \* isMut
             THEN Concat(<<Text("mut ")>>) ELSE Text(""),
             print(nfPath(path_.node, 0))>>)

printAlias(path_) == Concat(<<Text("as "), print(nfPath(path_.node, 0))>>)

printBlockIdentifier(path_) == print(nfPath(path_.node, 0))

printLabel(path_) ==
    IF path_.nextSibling.type = ":"
    THEN Concat(<<Text(path_.node.text), Text(":")>>)
    ELSE Text(path_.node.text)

printUnaryOperator(path_) == Text(path_.node.text)

printFieldInitializeList(path_) ==
    Concat(<<Text(" "),
             group(list(path_, "{", "}", TRUE, 0), shouldBreakFirstChild(path_))>>)

\* children[i]! of the printed children: undefined past the end.
at(children, i) == IF i + 1 \in 1..Len(children) THEN children[i + 1] ELSE Undefined

\* printExpressionField once its children are printed (const children).
expressionField(children) ==
    IF Len(children) = 1 THEN at(children, 0)
    ELSE group(Concat(<<at(children, 0), Text(": "), at(children, 1)>>), FALSE)

printExpressionField(path_) == expressionField(mapNonFormatting(path_))

printLambdaBindings(path_) == group(list(path_, "|", "|", FALSE, 0), FALSE)

\* printFunctionType once its children are printed (const children).
functionType(children) ==
    IF Len(children) = 0 THEN Text("||")
    ELSE IF Len(children) = 1 THEN at(children, 0)
    ELSE join(Text(" -> "), children)

\* A function type that joins whatever children it has, without the cases for
\* none and for one.
printFunctionTypeAlwaysJoined(path_) == join(Text(" -> "), mapNonFormatting(path_))

printFunctionType(path_) == functionType(mapNonFormatting(path_))

printFunctionTypeParameters(path_) == group(list(path_, "|", "|", FALSE, 0), FALSE)

\* The expression kinds of the other printer modules that the control-structure
\* associativity input exercises.  Each prints the raw children of its node in
\* source order, tokens included, and adds nothing: the parentheses of the
\* output are the parenthesis tokens of the tree.
Expression ==
    [IfExpression |-> "if_expression",
     DotExpression |-> "dot_expression",
     ParenthesizedExpression |-> "parenthesized_expression",
     Block |-> "block",
     NameExpression |-> "name_expression"]

printIfExpression(path_) == join(Text(" "), mapChildren(path_))

printDotExpression(path_) == Concat(mapChildren(path_))

\* A parenthesized expression printed as the expression inside it.
printParenthesizedExpressionUnwrapped(path_) ==
    print(ChildPath(path_.node, 2))

printParenthesizedExpression(path_) == Concat(mapChildren(path_))

printBlock(path_) == join(Text(" "), mapChildren(path_))

\* A kind no registry of this module owns: the caller consults the other
\* printer modules and, for a kind none of them owns, prints the node's
\* source text.
defaultPrint(path_) ==
    CASE path_.node.type = Expression.IfExpression -> printIfExpression(path_)
      [] path_.node.type = Expression.DotExpression -> printDotExpression(path_)
      [] path_.node.type = Expression.ParenthesizedExpression ->
            printParenthesizedExpression(path_)
      [] path_.node.type = Expression.Block -> printBlock(path_)
      [] OTHER -> Text(path_.node.text)

\* The procedure named f applied to a path.
apply(f, path_) ==
    CASE f = "printPrimitiveType" -> printPrimitiveType(path_)
      [] f = "printVariableIdentifier" -> printVariableIdentifier(path_)
      [] f = "printModuleAccess" -> printModuleAccess(path_)
      [] f = "printIdentifier" -> printIdentifier(path_)
      [] f = "printRefType" -> printRefType(path_)
      [] f = "printFunctionType" -> printFunctionType(path_)
      [] f = "printFunctionTypeParameters" -> printFunctionTypeParameters(path_)
      [] f = "printBinaryOperator" -> printBinaryOperator(path_)
      [] f = "printFieldIdentifier" -> printFieldIdentifier(path_)
      [] f = "printAbility" -> printAbility(path_)
      [] f = "printTupleType" -> printTupleType(path_)
      [] f = "printAnnotation" -> printAnnotation(path_)
      [] f = "printAnnotationItem" -> printAnnotationItem(path_)
      [] f = "printAnnotationList" -> printAnnotationList(path_)
      [] f = "printAnnotationExpression" -> printAnnotationExpression(path_)
      [] f = "printBindUnpack" -> printBindUnpack(path_)
      [] f = "printBindFields" -> printBindFields(path_)
      [] f = "printBindField" -> printBindField(path_)
      [] f = "printBindList" -> printBindList(path_)
      [] f = "printBindNamedFields" -> printBindNamedFields(path_)
      [] f = "printBindPositionalFields" -> printBindPositionalFields(path_)
      [] f = "printBindVar" -> printBindVar(path_)
      [] f = "printLabel" -> printLabel(path_)
      [] f = "printAlias" -> printAlias(path_)
      [] f = "printBlockIdentifier" -> printBlockIdentifier(path_)
      [] f = "printUnaryOperator" -> printUnaryOperator(path_)
      [] f = "printFieldInitializeList" -> printFieldInitializeList(path_)
      [] f = "printExpressionField" -> printExpressionField(path_)
      [] f = "printLambdaBindings" -> printLambdaBindings(path_)
      [] OTHER -> defaultPrint(path_)

\* What a call returns: the document, or the failure when building it threw.
result(d) == IF HasFault(d) THEN Fault ELSE d

\* The callback the procedures receive: asked to print a child that does not
\* exist it fails; otherwise it dispatches on the child's kind.
print(path_) ==
    IF IsMissing(path_) THEN Fault
    ELSE result(apply(lookup(path_.node.type), path_))

(***************************************************************************)
(* The trees handed to the printer: every kind of the registry, in the     *)
(* shapes the grammar produces and with the child counts a malformed tree  *)
(* could carry, up to the bounds below.                                    *)
(***************************************************************************)
\* The most formatting-significant children a generated node carries.
MaxArity == 3
\* The deepest nesting of a pattern inside the value of a bind_field.
MaxDepth == 1

UpTo(S, n) == UNION {[1..k -> S] : k \in 0..n}

RECURSIVE sepFrom(_, _, _)
sepFrom(items, tok, i) ==
    IF i > Len(items) THEN <<>>
    ELSE (IF i = 1 THEN <<>> ELSE <<Tok(tok)>>) \o <<items[i]>>
         \o sepFrom(items, tok, i + 1)

\* The children of a separated list: the items with the token between them.
sepBy(items, tok) == sepFrom(items, tok, 1)

\* The children of a delimited list; nl: the first item starts on a new line.
Delimited(open, items, close, nl) ==
    <<Tok(open)>>
    \o sepBy(IF nl /\ Len(items) > 0
             THEN [items EXCEPT ![1] = OnNewLine(items[1])] ELSE items, ",")
    \o <<Tok(close)>>

RECURSIVE Copies(_, _, _)
Copies(a, b, n) ==
    IF n = 0 THEN <<>> ELSE Append(Copies(a, b, n - 1), IF n % 2 = 1 THEN a ELSE b)

Id(x) == Leaf("identifier", x)
PrimU64 == Leaf("primitive_type", "u64")
TypeT == Inner("module_access", <<Id("T")>>)
RefMutT == Inner("ref_type", <<Tok("&mut"), TypeT>>)
FnParams == Inner("function_type_parameters", Delimited("|", <<PrimU64>>, "|", FALSE))

LeafRoots ==
    {PrimU64, Leaf("variable_identifier", "x"), Id("a"),
     Leaf("binary_operator", "+"), Leaf("field_identifier", "f"),
     Leaf("ability", "copy"), Leaf("unary_op", "!"),
     Inner("loop_expression", <<Leaf("label", "'a"), Tok(":"), Leaf("block", "{}")>>),
     Inner("break_expression", <<Tok("break"), Leaf("label", "'a")>>),
     Inner("block_identifier", <<Leaf("label", "'a"), Tok(":")>>),
     Inner("block_identifier", <<>>),
     Inner("alias", <<Tok("as"), Id("a")>>),
     Inner("alias", <<Tok("as")>>)}

RefTypeRoots ==
    {Inner("ref_type", <<Tok(m), ty>>) : m \in {"&", "&mut"}, ty \in {PrimU64, TypeT}}
    \cup {Inner("ref_type", <<>>), Inner("ref_type", <<Tok("&")>>)}

TupleTypeRoots ==
    {Inner("tuple_type", Delimited("(", s, ")", FALSE)) :
        s \in UpTo({PrimU64, RefMutT}, MaxArity)}

FunctionTypeRoots ==
    {Inner("function_type", sepBy(s, "->")) : s \in UpTo({FnParams, PrimU64}, MaxArity)}

ModuleAccessRoots ==
    {Inner("module_access", sepBy(s, "::")) :
        s \in UpTo({Id("a"), Id("b")}, MaxArity) \ {<<>>}}
    \cup {Inner("module_access", <<Id("a"), Comment("/* c */"), Tok("::"), Id("b")>>)}

AnnotationExprs ==
    {Inner("annotation_expr", <<Id("a")>>),
     Inner("annotation_expr", <<Id("a"), Tok("="), Id("b")>>),
     Inner("annotation_expr",
           <<Id("a"), Tok("="), Tok("::"),
             Inner("module_access", <<Id("a"), Tok("::"), Id("b")>>)>>),
     Inner("annotation_expr",
           <<Id("a"), Tok("="), Inner("module_access", <<Id("a"), Tok("::"), Id("b")>>)>>)}

AnnotationItems ==
    {Inner("annotation_item", <<e>>) : e \in AnnotationExprs}
    \cup {Inner("annotation_item",
                <<Inner("annotation_list",
                        <<Id("a")>> \o Delimited("(", its, ")", FALSE))>>) :
            its \in UpTo({Inner("annotation_item", <<Inner("annotation_expr", <<Id("b")>>)>>)},
                         MaxArity - 1)}

AnnotationRoots ==
    {Inner("annotation", <<Tok("#")>> \o Delimited("[", <<it>>, "]", FALSE)) :
        it \in AnnotationItems}
    \cup {Inner("annotation", <<Tok("#")>> \o Delimited("[", <<>>, "]", FALSE))}

Var(x) == Inner("bind_var", <<Leaf("variable_identifier", x)>>)
MutOpt(m, n) == IF m THEN <<Tok("mut"), n>> ELSE <<n>>
FieldId == Leaf("field_identifier", "f")
BindField(children) == Inner("bind_field", children)

\* bind_unpack of a struct name and a named or positional field list.
Unpack(fields, named, nl) ==
    Inner("bind_unpack",
          <<Inner("module_access", <<Id("S")>>),
            Inner("bind_fields",
                  <<IF named
                    THEN Inner("bind_named_fields", Delimited("{", fields, "}", nl))
                    ELSE Inner("bind_positional_fields", Delimited("(", fields, ")", nl))>>)>>)

\* The value side of a bind_field: a variable nested d patterns deep, the
\* variable preceded by the mut token iff m.
RECURSIVE Chain(_, _)
Chain(d, m) ==
    IF d = 0 THEN MutOpt(m, Var("x"))
    ELSE <<Unpack(<<BindField(<<FieldId, Tok(":")>> \o Chain(d - 1, m))>>, TRUE, FALSE)>>

FieldVariants ==
    {BindField(<<Tok("..")>>), BindField(<<>>)}
    \cup {BindField(MutOpt(m, n)) : m \in BOOLEAN, n \in {FieldId, Var("x")}}
    \cup {BindField(<<FieldId, Tok(":")>> \o Chain(d, m)) : d \in 0..MaxDepth, m \in BOOLEAN}

FieldLists ==
    {Copies(BindField(<<FieldId, Tok(":"), Var("x")>>),
            BindField(<<Tok("mut"), FieldId>>), n) : n \in 0..MaxArity}

BindRoots ==
    {Unpack(<<fv>>, TRUE, FALSE) : fv \in FieldVariants}
    \cup {Unpack(fs, named, nl) : fs \in FieldLists, named \in BOOLEAN, nl \in BOOLEAN}
    \cup {Inner("bind_fields", <<>>)}
    \cup {Inner("bind_list", MutOpt(m, Var("x"))) : m \in BOOLEAN}
    \cup {Inner(k, Delimited(IF k = "bind_list" THEN "(" ELSE "|",
                             Copies(Var("x"), Var("y"), n),
                             IF k = "bind_list" THEN ")" ELSE "|", FALSE)) :
            k \in {"bind_list", "lambda_bindings"}, n \in (0..MaxArity) \ {1}}
    \cup {Inner("bind_list", <<Tok("("), Tok("mut"), Var("x"), Tok(","), Var("y"), Tok(")")>>)}

\* exp_field with n formatting-significant children: the field and its values.
ExpField(n) ==
    Inner("exp_field",
          IF n = 0 THEN <<>>
          ELSE <<FieldId>> \o (IF n > 1 THEN <<Tok(":")>> ELSE <<>>)
               \o Copies(Leaf("num_literal", "1"), Leaf("num_literal", "1"), n - 1))

FieldInitRoots ==
    {Inner("field_initialize_list", Delimited("{", fs, "}", nl)) :
        fs \in {<<ExpField(n)>> : n \in 0..MaxArity}
               \cup {Copies(ExpField(1), ExpField(2), n) : n \in 0..MaxArity},
        nl \in BOOLEAN}

(***************************************************************************)
(* The control-structure associativity input.  The parser, for the         *)
(* expressions of that input: a control expression whose last branch is a  *)
(* block ends at the block and is a term, so that a field access after it  *)
(* applies to the whole of it; a last branch that is not a block is a full *)
(* expression and takes the field access for itself.                       *)
(***************************************************************************)
Names == {"cond", "s1", "s2"}
FieldNames == {"f"}

Parsed(t, rest, block) == [ok |-> TRUE, tree |-> t, rest |-> rest, block |-> block]
NoParse == [ok |-> FALSE, tree |-> NullNode, rest |-> <<>>, block |-> FALSE]

peek(ts, tok) == ts # <<>> /\ Head(ts) = tok

expect(r, tok) ==
    IF r.ok /\ peek(r.rest, tok) THEN [r EXCEPT !.rest = Tail(r.rest)] ELSE NoParse

parenthesized(r) ==
    IF r.ok
    THEN Parsed(Inner(Expression.ParenthesizedExpression, <<Tok("("), r.tree, Tok(")")>>),
                r.rest, FALSE)
    ELSE NoParse

braced(r) ==
    IF r.ok
    THEN Parsed(Inner(Expression.Block, <<Tok("{"), r.tree, Tok("}")>>), r.rest, TRUE)
    ELSE NoParse

RECURSIVE parse_exp(_)
RECURSIVE parse_term(_)
RECURSIVE parse_dot_chain(_)

\* A branch of a control expression, and whether it is a block.
parse_exp_or_sequence(ts) ==
    IF peek(ts, "{") THEN parse_term(ts) ELSE [parse_exp(ts) EXCEPT !.block = FALSE]

ifThenElse(c, t, f) ==
    IF f.ok
    THEN Parsed(Inner(Expression.IfExpression,
                      <<Tok("if"), Tok("("), c.tree, Tok(")"), t.tree, Tok("else"), f.tree>>),
                f.rest, f.block)
    ELSE NoParse

ifThen(c, t) ==
    IF ~t.ok THEN NoParse
    ELSE IF peek(t.rest, "else")
         THEN ifThenElse(c, t, parse_exp_or_sequence(Tail(t.rest)))
         ELSE Parsed(Inner(Expression.IfExpression,
                           <<Tok("if"), Tok("("), c.tree, Tok(")"), t.tree>>),
                     t.rest, t.block)

ifCondition(c) == IF c.ok THEN ifThen(c, parse_exp_or_sequence(c.rest)) ELSE NoParse

parse_control_exp(ts) ==
    IF peek(Tail(ts), "(")
    THEN ifCondition(expect(parse_exp(Tail(Tail(ts))), ")"))
    ELSE NoParse

parse_term(ts) ==
    IF ts = <<>> THEN NoParse
    ELSE CASE Head(ts) = "(" -> parenthesized(expect(parse_exp(Tail(ts)), ")"))
           [] Head(ts) = "{" -> braced(expect(parse_exp(Tail(ts)), "}"))
           [] Head(ts) = "if" -> parse_control_exp(ts)
           [] Head(ts) \in Names ->
                 Parsed(Leaf(Expression.NameExpression, Head(ts)), Tail(ts), FALSE)
           [] OTHER -> NoParse

parse_dot_chain(r) ==
    IF r.ok /\ peek(r.rest, ".") /\ Len(r.rest) >= 2 /\ r.rest[2] \in FieldNames
    THEN parse_dot_chain(
             Parsed(Inner(Expression.DotExpression,
                          <<r.tree, Tok("."), Leaf(Common.FieldIdentifier, r.rest[2])>>),
                    Tail(Tail(r.rest)), FALSE))
    ELSE r

\* A control expression that does not end in a block is the whole expression;
\* any other term may be followed by field accesses.
controlOrChain(r) ==
    IF r.ok /\ r.tree.type = Expression.IfExpression /\ ~r.block
    THEN r
    ELSE parse_dot_chain(r)

parse_exp(ts) == controlOrChain(parse_term(ts))

\* The tree of a token sequence; no tree when it does not parse.
treeOf(r) == IF r.ok /\ r.rest = <<>> THEN r.tree ELSE NullNode

parse(ts) == treeOf(parse_exp(ts))

\* The expressions of the input, as token sequences: the conditional ending in
\* a block followed by a field access, the conditional whose first branch is
\* followed by a field access (a parsing error), and beside them the explicitly
\* parenthesized form and the forms whose branches are not blocks.
IfElseBlocksThenField ==
    <<"if", "(", "cond", ")", "{", "s1", "}", "else", "{", "s2", "}", ".", "f">>
IfBlockThenFieldElse ==
    <<"if", "(", "cond", ")", "{", "s1", "}", ".", "f", "else", "s2", ".", "f">>
ParenthesizedIfThenField ==
    <<"(", "if", "(", "cond", ")", "{", "s1", "}", "else", "{", "s2", "}", ")", ".", "f">>
IfElseBareThenField == <<"if", "(", "cond", ")", "s1", "else", "s2", ".", "f">>
ParenthesizedBareIfThenField ==
    <<"(", "if", "(", "cond", ")", "s1", "else", "s2", ")", ".", "f">>
IfElseParenthesizedBranch ==
    <<"if", "(", "cond", ")", "{", "s1", "}", "else", "(", "s2", ".", "f", ")">>

ExpressionSources ==
    {IfElseBlocksThenField, IfBlockThenFieldElse, ParenthesizedIfThenField,
     IfElseBareThenField, ParenthesizedBareIfThenField, IfElseParenthesizedBranch}

ExpressionRoots == {parse(ts) : ts \in ExpressionSources} \ {NullNode}

Roots ==
    LeafRoots \cup RefTypeRoots \cup TupleTypeRoots \cup FunctionTypeRoots
    \cup ModuleAccessRoots \cup AnnotationRoots \cup BindRoots \cup FieldInitRoots
    \cup ExpressionRoots

(***************************************************************************)
(* The tree walk.                                                          *)
(***************************************************************************)
Init ==
    /\ tree \in Roots
    /\ path = <<>>
    /\ fn = "none"
    /\ out = NoDoc
    /\ seen = <<>>
    /\ NoTransactionBlock

\* Where the walk can go next: down to a child of the current node, or back
\* to the root.
Steps(t, p) == {<<>>} \cup {Append(p, i) : i \in 1..Len(NodeAt(t, p).children)}

\* The walk moves to a node of the tree.
Visit(p) ==
    /\ p \in Steps(tree, path)
    /\ path' = p
    /\ fn' = "none"
    /\ out' = NoDoc
    /\ UNCHANGED <<tree, seen>>
    /\ UNCHANGED txvars

\* The walk asks the registry for the node's procedure.
Lookup ==
    /\ fn = "none"
    /\ fn' = lookup(PathAt(tree, path).node.type)
    /\ UNCHANGED <<tree, path, out, seen>>
    /\ UNCHANGED txvars

\* The tree with the children of the node at p removed.
RECURSIVE withoutChildrenAt(_, _)
withoutChildrenAt(t, p) ==
    IF p = <<>> THEN [t EXCEPT !.children = <<>>]
    ELSE [t EXCEPT !.children[Head(p)] = withoutChildrenAt(t.children[Head(p)], Tail(p))]

\* A call that consumes the children of the node it printed.
ReturnedConsumingChildren(d) ==
    /\ out' = result(d)
    /\ tree' = withoutChildrenAt(tree, path)
    /\ \/ seen' = <<path, out', FALSE>>
       \/ /\ seen # <<>>
          /\ seen' = <<seen[1], seen[2], seen[3] \/ seen[1] # path>>
       \/ seen = <<>> /\ seen' = seen
    /\ UNCHANGED <<path, fn>>
    /\ UNCHANGED txvars

\* What a call leaves behind: the document it returned (or its failure); the
\* tree, the path and the registry's answer are as before.  The history
\* variable remembers this call, keeps what it remembered (noting that another
\* node has been printed since), or stays empty.
Returned(d) ==
    /\ out' = result(d)
    /\ \/ seen' = <<path, out', FALSE>>
       \/ /\ seen # <<>>
          /\ seen' = <<seen[1], seen[2], seen[3] \/ seen[1] # path>>
       \/ seen = <<>> /\ seen' = seen
    /\ UNCHANGED <<tree, path, fn>>
    /\ UNCHANGED txvars

PrintPrimitiveType == fn = "printPrimitiveType" /\ Returned(printPrimitiveType(PathAt(tree, path)))
PrintVariableIdentifier ==
    fn = "printVariableIdentifier" /\ Returned(printVariableIdentifier(PathAt(tree, path)))
PrintModuleAccess == fn = "printModuleAccess" /\ Returned(printModuleAccess(PathAt(tree, path)))
PrintIdentifier == fn = "printIdentifier" /\ Returned(printIdentifier(PathAt(tree, path)))
PrintRefType == fn = "printRefType" /\ Returned(printRefType(PathAt(tree, path)))
PrintFunctionType == fn = "printFunctionType" /\ Returned(printFunctionType(PathAt(tree, path)))
PrintFunctionTypeParameters ==
    fn = "printFunctionTypeParameters" /\ Returned(printFunctionTypeParameters(PathAt(tree, path)))
PrintBinaryOperator == fn = "printBinaryOperator" /\ Returned(printBinaryOperator(PathAt(tree, path)))
PrintFieldIdentifier == fn = "printFieldIdentifier" /\ Returned(printFieldIdentifier(PathAt(tree, path)))
PrintAbility == fn = "printAbility" /\ Returned(printAbility(PathAt(tree, path)))
PrintTupleType == fn = "printTupleType" /\ Returned(printTupleType(PathAt(tree, path)))
PrintAnnotation == fn = "printAnnotation" /\ Returned(printAnnotation(PathAt(tree, path)))
PrintAnnotationItem == fn = "printAnnotationItem" /\ Returned(printAnnotationItem(PathAt(tree, path)))
PrintAnnotationList == fn = "printAnnotationList" /\ Returned(printAnnotationList(PathAt(tree, path)))
PrintAnnotationExpression ==
    fn = "printAnnotationExpression" /\ Returned(printAnnotationExpression(PathAt(tree, path)))
PrintBindUnpack == fn = "printBindUnpack" /\ Returned(printBindUnpack(PathAt(tree, path)))
PrintBindFields == fn = "printBindFields" /\ Returned(printBindFields(PathAt(tree, path)))
PrintBindField == fn = "printBindField" /\ Returned(printBindField(PathAt(tree, path)))
PrintBindList == fn = "printBindList" /\ Returned(printBindList(PathAt(tree, path)))
PrintBindNamedFields == fn = "printBindNamedFields" /\ Returned(printBindNamedFields(PathAt(tree, path)))
PrintBindPositionalFields ==
    fn = "printBindPositionalFields" /\ Returned(printBindPositionalFields(PathAt(tree, path)))
PrintBindVar == fn = "printBindVar" /\ Returned(printBindVar(PathAt(tree, path)))
PrintLabel == fn = "printLabel" /\ Returned(printLabel(PathAt(tree, path)))
PrintAlias == fn = "printAlias" /\ Returned(printAlias(PathAt(tree, path)))
PrintBlockIdentifier == fn = "printBlockIdentifier" /\ Returned(printBlockIdentifier(PathAt(tree, path)))
PrintUnaryOperator == fn = "printUnaryOperator" /\ Returned(printUnaryOperator(PathAt(tree, path)))
PrintFieldInitializeList ==
    fn = "printFieldInitializeList" /\ Returned(printFieldInitializeList(PathAt(tree, path)))
PrintExpressionField == fn = "printExpressionField" /\ Returned(printExpressionField(PathAt(tree, path)))
PrintLambdaBindings == fn = "printLambdaBindings" /\ Returned(printLambdaBindings(PathAt(tree, path)))

\* The registry returned null: the caller falls through to its default.
PrintDefault == fn = "null" /\ Returned(defaultPrint(PathAt(tree, path)))

Next ==
    \/ \E p \in Steps(tree, path) : Visit(p)
    \/ Lookup
    \/ PrintPrimitiveType
    \/ PrintVariableIdentifier
    \/ PrintModuleAccess
    \/ PrintIdentifier
    \/ PrintRefType
    \/ PrintFunctionType
    \/ PrintFunctionTypeParameters
    \/ PrintBinaryOperator
    \/ PrintFieldIdentifier
    \/ PrintAbility
    \/ PrintTupleType
    \/ PrintAnnotation
    \/ PrintAnnotationItem
    \/ PrintAnnotationList
    \/ PrintAnnotationExpression
    \/ PrintBindUnpack
    \/ PrintBindFields
    \/ PrintBindField
    \/ PrintBindList
    \/ PrintBindNamedFields
    \/ PrintBindPositionalFields
    \/ PrintBindVar
    \/ PrintLabel
    \/ PrintAlias
    \/ PrintBlockIdentifier
    \/ PrintUnaryOperator
    \/ PrintFieldInitializeList
    \/ PrintExpressionField
    \/ PrintLambdaBindings
    \/ PrintDefault

Spec == Init /\ [][Next]_vars

(***************************************************************************)
(* The default features of the transaction builder.  Values first: a       *)
(* JavaScript string holding a number or an array, either of which may be  *)
(* undefined; object ids; the inputs of a transaction block.               *)
(***************************************************************************)
String(n) == [defined |-> TRUE, value |-> n]
undefinedString == [defined |-> FALSE, value |-> 0]
Array(a) == [defined |-> TRUE, value |-> a]
undefinedArray == [defined |-> FALSE, value |-> <<>>]

\* undefined is falsy; an array and a string holding a number are truthy.
truthy(v) == v.defined

BigInt(v) == v.value

\* An object id as written: a number in hexadecimal, bare, with the 0x
\* prefix, or in the normal form (prefixed and padded); a raw value can also
\* be a number, which is not a string.
ObjectId(hex, form) == [hex |-> hex, form |-> form]
isString(value) == value.form # "number"

normalizeSuiAddress(value) == ObjectId(value.hex, "padded")
normalizeSuiObjectId(value) == normalizeSuiAddress(value)

\* OpenMoveTypeSignature: how the parameter is taken and what it is.
OpenMoveTypeSignature(ref, body) == [ref |-> ref, body |-> body]
NoSignature == OpenMoveTypeSignature("none", "none")

isReceivingType(type) == type.body = "receiving"
isTxContext(type) == type.body = "txContext"
getPureSerializationType(param, value) ==
    IF param.body = "pure" THEN String(0) ELSE undefinedString
extractStructTag(param) == param.body \in {"object", "receiving", "txContext"}

\* CallArg: every input is a record of the same shape.
CallArg(kind, value, typeSignature, version, mutable) ==
    [kind |-> kind, value |-> value, typeSignature |-> typeSignature,
     version |-> version, mutable |-> mutable]

RawValue(value) == CallArg("RawValue", value, NoSignature, 0, FALSE)
UnresolvedObject(value, typeSignature) ==
    CallArg("UnresolvedObject", value, typeSignature, 0, FALSE)
Pure(value, serType) == CallArg("Pure", value, NoSignature, 0, FALSE)
SharedObjectRef(objectId, initialSharedVersion, mutable) ==
    CallArg("SharedObject", normalizeSuiAddress(objectId), NoSignature,
            initialSharedVersion, mutable)
ReceivingRef(data) ==
    CallArg("Receiving", normalizeSuiAddress(data.objectId), NoSignature, data.version, FALSE)
ObjectRef(data) ==
    CallArg("ImmOrOwnedObject", normalizeSuiAddress(data.objectId), NoSignature,
            data.version, FALSE)

\* The shared-object input behind an argument is mutable; an unresolved
\* object is not a shared-object input.
isMutableSharedObjectInput(input) == input.kind = "SharedObject" /\ input.mutable

\* The bytes of a pure input: an address is 32 bytes, a number 8.
pureLength(input) == IF isString(input.value) THEN 32 ELSE 8

\* A coin as the client lists it, and the reference to it in a payment.
Coin(coinObjectId, version) == [coinObjectId |-> coinObjectId, version |-> version]
\* parse(ObjectRef, ...) checks the reference and normalizes its object id.
PaymentRef(coin) ==
    [objectId |-> normalizeSuiAddress(coin.coinObjectId), version |-> coin.version]

MoveCall(arguments) == [MoveCall |-> TRUE, arguments |-> arguments]

Hooks ==
    {"normalizeInputs", "resolveObjectReferences", "setGasPrice", "setGasBudget",
     "setGasPayment", "validate"}

MAX_OBJECTS_PER_FETCH == 50
GAS_SAFE_OVERHEAD == 1000

\* What the operation did, in order: a plugin's hook invoked, completed or
\* thrown (who: the plugin's index), and of the default logic (who: 0) a call
\* of the client or a change to the block data.
Event(what, who) == [what |-> what, who |-> who]

(***************************************************************************)
(* Plugins.  A plugin defines some of the hooks; a hook of it does         *)
(* nothing to the block data, does the work of its name on it, or throws.  *)
(***************************************************************************)
Plugin(hooks, effect) == [hooks |-> hooks, effect |-> effect]

PluginPrice == String(3)
PluginBudget == String(7)
PluginPayment ==
    Array(<<PaymentRef(Coin(ObjectId(1, "padded"), 1)),
            PaymentRef(Coin(ObjectId(2, "padded"), 1))>>)

RECURSIVE firstOfKind(_, _, _)
firstOfKind(inputs, kind, i) ==
    IF i > Len(inputs) THEN 0
    ELSE IF inputs[i].kind = kind THEN i
    ELSE firstOfKind(inputs, kind, i + 1)

replaceFirst(inputs, kind, new) ==
    IF firstOfKind(inputs, kind, 1) = 0 THEN inputs
    ELSE [inputs EXCEPT ![firstOfKind(inputs, kind, 1)] = new]

\* A plugin's hook doing the work of its name: a gas station sets the price,
\* the budget or the payment; a cache resolves the first unresolved object
\* from what it knows, or serializes the first raw value.
edited(h, data) ==
    CASE h = "setGasPrice" -> [data EXCEPT !.gasConfig.price = PluginPrice]
      [] h = "setGasBudget" -> [data EXCEPT !.gasConfig.budget = PluginBudget]
      [] h = "setGasPayment" -> [data EXCEPT !.gasConfig.payment = PluginPayment]
      [] h = "resolveObjectReferences" ->
            [data EXCEPT !.inputs =
                replaceFirst(@, "UnresolvedObject",
                             ObjectRef([objectId |-> ObjectId(9, "padded"), version |-> 1]))]
      [] h = "normalizeInputs" ->
            [data EXCEPT !.inputs =
                replaceFirst(@, "RawValue", Pure(ObjectId(9, "number"), String(0)))]
      [] OTHER -> data

(***************************************************************************)
(* A call of an operation, and #runHook: the plugins in order, each hook   *)
(* awaited before the loop goes on.                                        *)
(***************************************************************************)
Call(h, o) ==
    /\ pc = "idle"
    /\ hook' = h
    /\ options' = o
    /\ pc' = "runHook"
    /\ cursor' = 1
    /\ log' = <<>>
    /\ atCall' = blockData
    /\ atDefault' = blockData
    /\ UNCHANGED <<plugins, blockData, pending, response>>
    /\ UNCHANGED vars

\* The plugin the loop is at does not define the hook.
SkipPlugin ==
    /\ pc = "runHook"
    /\ cursor <= Len(plugins)
    /\ hook \notin plugins[cursor].hooks
    /\ cursor' = cursor + 1
    /\ UNCHANGED <<plugins, blockData, hook, options, pc, pending, response, log,
                   atCall, atDefault>>
    /\ UNCHANGED vars

\* Invoking the next hook without awaiting the one just invoked.
InvokeHookUnawaited ==
    /\ pc = "runHook"
    /\ cursor <= Len(plugins)
    /\ hook \in plugins[cursor].hooks
    /\ log' = Append(log, Event("invoke", cursor))
    /\ cursor' = cursor + 1
    /\ UNCHANGED <<plugins, blockData, hook, options, pc, pending, response,
                   atCall, atDefault>>
    /\ UNCHANGED vars

\* The plugin the loop is at defines the hook: it is invoked and awaited.
InvokeHook ==
    /\ pc = "runHook"
    /\ cursor <= Len(plugins)
    /\ hook \in plugins[cursor].hooks
    /\ pc' = "hook"
    /\ log' = Append(log, Event("invoke", cursor))
    /\ UNCHANGED <<plugins, blockData, hook, options, cursor, pending, response,
                   atCall, atDefault>>
    /\ UNCHANGED vars

\* The awaited hook completes, having done its work on the block data.
HookCompletes ==
    /\ pc = "hook"
    /\ plugins[cursor].effect # "throws"
    /\ blockData' = IF plugins[cursor].effect = "edits"
                    THEN edited(hook, blockData)
                    ELSE blockData
    /\ log' = Append(log, Event("complete", cursor))
    /\ cursor' = cursor + 1
    /\ pc' = "runHook"
    /\ UNCHANGED <<plugins, hook, options, pending, response, atCall, atDefault>>
    /\ UNCHANGED vars

\* The awaited hook throws: #runHook and the operation fail with it.
HookThrows ==
    /\ pc = "hook"
    /\ plugins[cursor].effect = "throws"
    /\ log' = Append(log, Event("throw", cursor))
    /\ pc' = "threw"
    /\ UNCHANGED <<plugins, blockData, hook, options, cursor, pending, response,
                   atCall, atDefault>>
    /\ UNCHANGED vars

\* #runHook has returned to the operation named h.
hooksRun(h) == pc = "runHook" /\ cursor > Len(plugins) /\ hook = h

\* The operation returns, or goes on to call the client.
returns == pc' = "returned" /\ log' = log
calls(request) == pc' = request /\ log' = Append(log, Event("client", 0))

\* An awaited call of the client rejects (or the request could not be built):
\* the operation fails where it waited.
ClientRejects ==
    /\ pc \in {"getReferenceGasPrice", "dryRunTransactionBlock", "getCoins",
               "multiGetObjects"}
    /\ pc' = "threw"
    /\ UNCHANGED <<plugins, blockData, hook, options, cursor, pending, response, log,
                   atCall, atDefault>>
    /\ UNCHANGED vars

(***************************************************************************)
(* setGasPrice, setGasBudget.                                              *)
(***************************************************************************)
SetGasPrice ==
    /\ hooksRun("setGasPrice")
    /\ atDefault' = blockData
    /\ IF truthy(blockData.gasConfig.price) THEN returns ELSE calls("getReferenceGasPrice")
    /\ UNCHANGED <<plugins, blockData, hook, options, cursor, pending, response, atCall>>
    /\ UNCHANGED vars

GetReferenceGasPriceReturns(price) ==
    /\ pc = "getReferenceGasPrice"
    /\ response' = price
    /\ blockData' = [blockData EXCEPT !.gasConfig.price = String(price)]
    /\ log' = Append(log, Event("write", 0))
    /\ pc' = "returned"
    /\ UNCHANGED <<plugins, hook, options, cursor, pending, atCall, atDefault>>
    /\ UNCHANGED vars

SetGasBudget ==
    /\ hooksRun("setGasBudget")
    /\ atDefault' = blockData
    /\ IF truthy(blockData.gasConfig.budget) THEN returns ELSE calls("dryRunTransactionBlock")
    /\ UNCHANGED <<plugins, blockData, hook, options, cursor, pending, response, atCall>>
    /\ UNCHANGED vars

safeOverhead(price) == GAS_SAFE_OVERHEAD * BigInt(IF truthy(price) THEN price ELSE String(1))

baseComputationCostWithOverhead(gasUsed, price) ==
    gasUsed.computationCost + safeOverhead(price)

gasBudget(gasUsed, price) ==
    baseComputationCostWithOverhead(gasUsed, price) + gasUsed.storageCost
    - gasUsed.storageRebate

budgetFor(gasUsed, price) ==
    String(IF gasBudget(gasUsed, price) > baseComputationCostWithOverhead(gasUsed, price)
           THEN gasBudget(gasUsed, price)
           ELSE baseComputationCostWithOverhead(gasUsed, price))

DryRunTransactionBlockReturns(dryRunResult) ==
    /\ pc = "dryRunTransactionBlock"
    /\ response' = dryRunResult
    /\ IF dryRunResult.status # "success"
       THEN /\ pc' = "threw"
            /\ UNCHANGED <<blockData, log>>
       ELSE /\ blockData' = [blockData EXCEPT !.gasConfig.budget =
                                budgetFor(dryRunResult.gasUsed, blockData.gasConfig.price)]
            /\ log' = Append(log, Event("write", 0))
            /\ pc' = "returned"
    /\ UNCHANGED <<plugins, hook, options, cursor, pending, atCall, atDefault>>
    /\ UNCHANGED vars

(***************************************************************************)
(* setGasPayment.                                                          *)
(***************************************************************************)
SetGasPayment ==
    /\ hooksRun("setGasPayment")
    /\ atDefault' = blockData
    /\ IF truthy(blockData.gasConfig.payment)
       THEN IF Len(blockData.gasConfig.payment.value) > options.maxGasObjects
            THEN pc' = "threw" /\ log' = log
            ELSE returns
       ELSE calls("getCoins")
    /\ UNCHANGED <<plugins, blockData, hook, options, cursor, pending, response, atCall>>
    /\ UNCHANGED vars

\* The coin is also used as an input of the transaction.
matchingInput(inputs, coin) ==
    \E i \in 1..Len(inputs) :
        /\ inputs[i].kind = "ImmOrOwnedObject"
        /\ coin.coinObjectId = inputs[i].value

filter(coins, inputs) == SelectSeq(coins, LAMBDA coin : ~matchingInput(inputs, coin))

\* Array.prototype.slice(0, end): a negative end counts from the end.
slice(a, end) ==
    IF end >= 0 THEN SubSeq(a, 1, IF end < Len(a) THEN end ELSE Len(a))
    ELSE SubSeq(a, 1, Len(a) + end)

\* The payment in which a coin used as an input is not left out.
paymentCoinsUnfiltered(coins, inputs, maxGasObjects) ==
    [i \in 1..Len(slice(coins, maxGasObjects - 1)) |->
        PaymentRef(slice(coins, maxGasObjects - 1)[i])]

paymentCoins(coins, inputs, maxGasObjects) ==
    [i \in 1..Len(slice(filter(coins, inputs), maxGasObjects - 1)) |->
        PaymentRef(slice(filter(coins, inputs), maxGasObjects - 1)[i])]

GetCoinsReturns(coins) ==
    /\ pc = "getCoins"
    /\ response' = coins
    /\ IF Len(paymentCoins(coins, blockData.inputs, options.maxGasObjects)) = 0
       THEN /\ pc' = "threw"
            /\ UNCHANGED <<blockData, log>>
       ELSE /\ blockData' = [blockData EXCEPT !.gasConfig.payment =
                                Array(paymentCoins(coins, blockData.inputs,
                                                   options.maxGasObjects))]
            /\ log' = Append(log, Event("write", 0))
            /\ pc' = "returned"
    /\ UNCHANGED <<plugins, hook, options, cursor, pending, atCall, atDefault>>
    /\ UNCHANGED vars

(***************************************************************************)
(* resolveObjectReferences.  An input is the object it is, not its value:  *)
(* the inputs to resolve are kept by their places in the list, which is    *)
(* where indexOf finds each of them.                                       *)
(***************************************************************************)
RECURSIVE objectsToResolveFrom(_, _)
objectsToResolveFrom(inputs, i) ==
    IF i > Len(inputs) THEN <<>>
    ELSE (IF inputs[i].kind = "UnresolvedObject" THEN <<i>> ELSE <<>>)
         \o objectsToResolveFrom(inputs, i + 1)

objectsToResolve(inputs) == objectsToResolveFrom(inputs, 1)

indexOf(arr, x) ==
    IF \E i \in 1..Len(arr) : arr[i] = x
    THEN CHOOSE i \in 1..Len(arr) : arr[i] = x /\ \A j \in 1..(i - 1) : arr[j] # x
    ELSE 0

\* [...new Set(ids)]: the distinct ids, each where it first occurs.
RECURSIVE dedupedFrom(_, _, _)
dedupedFrom(inputs, toResolve, k) ==
    IF k > Len(toResolve) THEN <<>>
    ELSE (IF \E j \in 1..(k - 1) :
                normalizeSuiObjectId(inputs[toResolve[j]].value)
                    = normalizeSuiObjectId(inputs[toResolve[k]].value)
          THEN <<>>
          ELSE <<normalizeSuiObjectId(inputs[toResolve[k]].value)>>)
         \o dedupedFrom(inputs, toResolve, k + 1)

dedupedIds(inputs) == dedupedFrom(inputs, objectsToResolve(inputs), 1)

ceilDiv(n, size) == (n + size - 1) \div size

chunk(arr, size) ==
    [i \in 1..ceilDiv(Len(arr), size) |->
        SubSeq(arr, (i - 1) * size + 1,
               IF i * size < Len(arr) THEN i * size ELSE Len(arr))]

RECURSIVE flatFrom(_, _)
flatFrom(arrs, i) == IF i > Len(arrs) THEN <<>> ELSE arrs[i] \o flatFrom(arrs, i + 1)

flat(arrs) == flatFrom(arrs, 1)

\* What the client knows of an object: an error, or its data.
ObjectResponse(error, objectId, owner, initial_shared_version) ==
    [error |-> error,
     data |-> [objectId |-> objectId, version |-> 1, owner |-> owner,
               initial_shared_version |-> initial_shared_version]]

\* multiGetObjects answers each chunk with the objects of its ids, in order.
multiGetObjects(client, ids) == [j \in 1..Len(ids) |-> client[ids[j]]]

fetched(client, ids) ==
    flat([c \in 1..Len(chunk(ids, MAX_OBJECTS_PER_FETCH)) |->
            multiGetObjects(client, chunk(ids, MAX_OBJECTS_PER_FETCH)[c])])

\* objectsById.get(id)
objectById(ids, objects, id) == objects[indexOf(ids, id)]

invalidObjects(ids, objects) == SelectSeq(ids, LAMBDA id : objectById(ids, objects, id).error)

\* The initial shared version of a shared object; 0 stands for undefined.
initialSharedVersion(object) ==
    IF object.data.owner = "Shared" THEN object.data.initial_shared_version ELSE 0

updated(input, object) ==
    IF initialSharedVersion(object) # 0
    THEN SharedObjectRef(normalizeSuiAddress(input.value), initialSharedVersion(object),
                         \/ isMutableSharedObjectInput(input)
                         \/ input.typeSignature.ref = "none"
                         \/ input.typeSignature.ref = "&mut")
    ELSE IF isReceivingType(input.typeSignature) THEN ReceivingRef(object.data)
    ELSE ObjectRef(object.data)

RECURSIVE resolveEach(_, _, _, _, _)
resolveEach(inputs, toResolve, k, ids, objects) ==
    IF k > Len(toResolve) THEN inputs
    ELSE resolveEach(
             [inputs EXCEPT ![toResolve[k]] =
                 updated(inputs[toResolve[k]],
                         objectById(ids, objects,
                                    normalizeSuiAddress(inputs[toResolve[k]].value)))],
             toResolve, k + 1, ids, objects)

\* The inputs whose object the client knows, resolved; the others as they are.
RECURSIVE resolveValid(_, _, _, _, _)
resolveValid(inputs, toResolve, k, ids, objects) ==
    IF k > Len(toResolve) THEN inputs
    ELSE resolveValid(
             IF objectById(ids, objects, normalizeSuiAddress(inputs[toResolve[k]].value)).error
             THEN inputs
             ELSE [inputs EXCEPT ![toResolve[k]] =
                      updated(inputs[toResolve[k]],
                              objectById(ids, objects,
                                         normalizeSuiAddress(inputs[toResolve[k]].value)))],
             toResolve, k + 1, ids, objects)

ResolveObjectReferences ==
    /\ hooksRun("resolveObjectReferences")
    /\ atDefault' = blockData
    /\ IF Len(objectsToResolve(blockData.inputs)) = 0 THEN returns ELSE calls("multiGetObjects")
    /\ UNCHANGED <<plugins, blockData, hook, options, cursor, pending, response, atCall>>
    /\ UNCHANGED vars

\* The objects are checked one by one while the inputs are being replaced.
MultiGetObjectsReturnsResolvingValid(client) ==
    /\ pc = "multiGetObjects"
    /\ response' = fetched(client, dedupedIds(blockData.inputs))
    /\ blockData' = [blockData EXCEPT !.inputs =
                        resolveValid(@, objectsToResolve(@), 1, dedupedIds(@), response')]
    /\ log' = Append(log, Event("write", 0))
    /\ pc' = IF Len(invalidObjects(dedupedIds(blockData.inputs), response')) # 0
             THEN "threw" ELSE "returned"
    /\ UNCHANGED <<plugins, hook, options, cursor, pending, atCall, atDefault>>
    /\ UNCHANGED vars

MultiGetObjectsReturns(client) ==
    /\ pc = "multiGetObjects"
    /\ response' = fetched(client, dedupedIds(blockData.inputs))
    /\ IF Len(invalidObjects(dedupedIds(blockData.inputs), response')) # 0
       THEN /\ pc' = "threw"
            /\ UNCHANGED <<blockData, log>>
       ELSE /\ blockData' = [blockData EXCEPT !.inputs =
                                resolveEach(@, objectsToResolve(@), 1, dedupedIds(@),
                                            response')]
            /\ log' = Append(log, Event("write", 0))
            /\ pc' = "returned"
    /\ UNCHANGED <<plugins, hook, options, cursor, pending, atCall, atDefault>>
    /\ UNCHANGED vars

(***************************************************************************)
(* normalizeInputs.  An argument is the index of an input, counted from 0; *)
(* the index 0 is falsy.  The functions of the move calls are fetched      *)
(* together: each answer is worked on when it arrives, and the first       *)
(* failure fails the operation while the other answers are still awaited.  *)
(***************************************************************************)
inputOf(inputs, arg) == inputs[arg + 1]

needsResolution(inputs, transaction) ==
    \E a \in 1..Len(transaction.arguments) :
        /\ transaction.arguments[a] # 0
        /\ transaction.arguments[a] + 1 \in 1..Len(inputs)
        /\ inputOf(inputs, transaction.arguments[a]).kind = "RawValue"

moveModulesToResolve(data) ==
    {t \in 1..Len(data.transactions) :
        data.transactions[t].MoveCall /\ needsResolution(data.inputs, data.transactions[t])}

Normalized(inputs, threw) == [inputs |-> inputs, threw |-> threw]

\* One parameter of the function against the argument in its place.
normalizeParam(inputs, arg, param) ==
    IF arg = 0 THEN Normalized(inputs, FALSE)
    ELSE IF arg + 1 \notin 1..Len(inputs) THEN Normalized(inputs, TRUE)
    ELSE IF inputOf(inputs, arg).kind # "RawValue" THEN Normalized(inputs, FALSE)
    ELSE IF truthy(getPureSerializationType(param, inputOf(inputs, arg).value))
    THEN Normalized([inputs EXCEPT ![arg + 1] =
                        Pure(inputOf(inputs, arg).value,
                             getPureSerializationType(param, inputOf(inputs, arg).value))],
                    FALSE)
    ELSE IF extractStructTag(param) \/ param.body = "typeParameter"
    THEN IF ~isString(inputOf(inputs, arg).value)
         THEN Normalized(inputs, TRUE)
         ELSE Normalized([inputs EXCEPT ![arg + 1] =
                             UnresolvedObject(inputOf(inputs, arg).value, param)],
                         FALSE)
    ELSE Normalized(inputs, TRUE)

RECURSIVE normalizeEach(_, _, _, _)
normalizeEach(r, arguments, params, i) ==
    IF r.threw \/ i > Len(params) THEN r
    ELSE normalizeEach(normalizeParam(r.inputs, arguments[i], params[i]),
                       arguments, params, i + 1)

hasTxContext(parameters) == Len(parameters) > 0 /\ isTxContext(Last(parameters))

paramsOf(parameters) == IF hasTxContext(parameters) THEN Front(parameters) ELSE parameters

normalized(inputs, moveCall, parameters) ==
    IF Len(paramsOf(parameters)) # Len(moveCall.arguments)
    THEN Normalized(inputs, TRUE)
    ELSE normalizeEach(Normalized(inputs, FALSE), moveCall.arguments,
                       paramsOf(parameters), 1)

NormalizeInputs ==
    /\ hooksRun("normalizeInputs")
    /\ atDefault' = blockData
    /\ pending' = moveModulesToResolve(blockData)
    /\ IF pending' = {} THEN returns ELSE calls("getNormalizedMoveFunction")
    /\ UNCHANGED <<plugins, blockData, hook, options, cursor, response, atCall>>
    /\ UNCHANGED vars

\* The function of move call t arrives and its arguments are worked on.  When
\* the operation has failed already this still happens, unobserved.
GetNormalizedMoveFunctionReturns(t, parameters) ==
    /\ t \in pending
    /\ pending' = pending \ {t}
    /\ response' = parameters
    /\ blockData' = [blockData EXCEPT !.inputs =
                        normalized(@, blockData.transactions[t], parameters).inputs]
    /\ log' = IF blockData' # blockData THEN Append(log, Event("write", 0)) ELSE log
    /\ pc' = IF pc = "threw"
                \/ normalized(blockData.inputs, blockData.transactions[t], parameters).threw
             THEN "threw"
             ELSE IF pending' = {} THEN "returned" ELSE pc
    /\ UNCHANGED <<plugins, hook, options, cursor, atCall, atDefault>>
    /\ UNCHANGED vars

GetNormalizedMoveFunctionRejects(t) ==
    /\ t \in pending
    /\ pending' = pending \ {t}
    /\ pc' = "threw"
    /\ UNCHANGED <<plugins, blockData, hook, options, cursor, response, log, atCall,
                   atDefault>>
    /\ UNCHANGED vars

(***************************************************************************)
(* validate.                                                               *)
(***************************************************************************)
Validate ==
    /\ hooksRun("validate")
    /\ atDefault' = blockData
    /\ IF \E index \in 1..Len(blockData.inputs) :
             /\ blockData.inputs[index].kind = "Pure"
             /\ pureLength(blockData.inputs[index]) > options.maxPureArgumentSize
       THEN pc' = "threw" /\ log' = log
       ELSE returns
    /\ UNCHANGED <<plugins, blockData, hook, options, cursor, pending, response, atCall>>
    /\ UNCHANGED vars

(***************************************************************************)
(* The transaction blocks, the plugins and the client the operations are   *)
(* run against.                                                            *)
(***************************************************************************)
MaxPlugins == 2
MaxInputs == 2
MaxCoins == 2
MaxGasObjects == 2

SeqsUpTo(S, n) == UNION {[1..k -> S] : k \in 0..n}

\* A plugin that only looks, and at some operations; a plugin that does the
\* work of every operation but the validation; a plugin whose hooks throw.
Observer == Plugin({"setGasPrice", "normalizeInputs", "validate"}, "none")
Worker == Plugin(Hooks \ {"validate"}, "edits")
Faulty == Plugin(Hooks, "throws")

PluginLists == SeqsUpTo({Observer, Worker, Faulty}, MaxPlugins)

ObjectIds == {ObjectId(1, "padded"), ObjectId(2, "padded")}

InputValues ==
    {RawValue(ObjectId(1, "0x")),
     Pure(ObjectId(1, "0x"), String(0)),
     UnresolvedObject(ObjectId(1, "bare"), OpenMoveTypeSignature("&", "object")),
     UnresolvedObject(ObjectId(2, "0x"), OpenMoveTypeSignature("none", "receiving")),
     ObjectRef([objectId |-> ObjectId(1, "0x"), version |-> 1])}

InputLists == SeqsUpTo(InputValues, MaxInputs)

\* The gas configuration the caller leaves: nothing set, the price set, or
\* everything set, with a payment of some coins.
RECURSIVE copies(_, _)
copies(x, n) == IF n = 0 THEN <<>> ELSE <<x>> \o copies(x, n - 1)

GasConfig(price, budget, payment) == [price |-> price, budget |-> budget, payment |-> payment]

GasConfigs ==
    {GasConfig(undefinedString, undefinedString, undefinedArray),
     GasConfig(String(5), undefinedString, undefinedArray)}
    \cup {GasConfig(String(5), String(9),
                    Array(copies(PaymentRef(Coin(ObjectId(2, "padded"), 1)), n))) :
             n \in 0..MaxCoins}

\* One move call taking every input, or one move call for each input.
TransactionLists(inputs) ==
    {<<MoveCall([i \in 1..Len(inputs) |-> i - 1])>>,
     [i \in 1..Len(inputs) |-> MoveCall(<<i - 1>>)]}

Options(maxGasObjects, maxPureArgumentSize) ==
    [maxGasObjects |-> maxGasObjects, maxPureArgumentSize |-> maxPureArgumentSize]

OptionsOf(h) ==
    CASE h = "setGasPayment" -> {Options(n, 32) : n \in 1..MaxGasObjects}
      [] h = "validate" -> {Options(1, 16), Options(1, 32)}
      [] OTHER -> {Options(1, 32)}

GasPrices == {0, 5}

DryRunResults ==
    {[status |-> st,
      gasUsed |-> [computationCost |-> 1000, storageCost |-> sc, storageRebate |-> sr]] :
        st \in {"success", "failure"}, sc \in {0, 2000}, sr \in {0, 5000}}

CoinLists == SeqsUpTo({Coin(id, 1) : id \in ObjectIds}, MaxCoins)

\* The client answers for the object it is asked about.
Clients ==
    {[id \in ObjectIds |-> ObjectResponse(answer[id] = "error", id,
                                          IF answer[id] = "shared" THEN "Shared"
                                          ELSE "AddressOwner",
                                          1)] :
        answer \in [ObjectIds -> {"error", "owned", "shared"}]}

Parameters ==
    {OpenMoveTypeSignature("none", "pure"),
     OpenMoveTypeSignature("&mut", "object"),
     OpenMoveTypeSignature("none", "unknown")}

ParameterLists(n) ==
    [1..n -> Parameters]
    \cup {Append(ps, OpenMoveTypeSignature("&mut", "txContext")) : ps \in [1..n -> Parameters]}
    \cup {<<>>}

TxInit ==
    /\ plugins \in PluginLists
    /\ \E inputs \in InputLists :
        \E transactions \in TransactionLists(inputs) :
            \E gasConfig \in GasConfigs :
                blockData = [inputs |-> inputs,
                             transactions |-> transactions,
                             gasConfig |-> gasConfig]
    /\ hook = "none"
    /\ options = Options(1, 32)
    /\ pc = "idle"
    /\ cursor = 0
    /\ pending = {}
    /\ response = <<>>
    /\ log = <<>>
    /\ atCall = blockData
    /\ atDefault = blockData
    /\ tree = NullNode
    /\ path = <<>>
    /\ fn = "none"
    /\ out = NoDoc
    /\ seen = <<>>

TxNext ==
    \/ \E h \in Hooks : \E o \in OptionsOf(h) : Call(h, o)
    \/ SkipPlugin
    \/ InvokeHook
    \/ HookCompletes
    \/ HookThrows
    \/ ClientRejects
    \/ SetGasPrice
    \/ \E price \in GasPrices : GetReferenceGasPriceReturns(price)
    \/ SetGasBudget
    \/ \E dryRunResult \in DryRunResults : DryRunTransactionBlockReturns(dryRunResult)
    \/ SetGasPayment
    \/ \E coins \in CoinLists : GetCoinsReturns(coins)
    \/ ResolveObjectReferences
    \/ \E client \in Clients : MultiGetObjectsReturns(client)
    \/ NormalizeInputs
    \/ \E t \in pending :
        \E parameters \in ParameterLists(Len(blockData.transactions[t].arguments)) :
            GetNormalizedMoveFunctionReturns(t, parameters)
    \/ \E t \in pending : GetNormalizedMoveFunctionRejects(t)
    \/ Validate

TxSpec == TxInit /\ [][TxNext]_txvars

(***************************************************************************)
(* Properties.                                                             *)
(***************************************************************************)
\* The node the walk is at, and its formatting-significant child count.
current == PathAt(tree, path)
arity == Len(nonFormattingIndices(current.node))

\* C1: the registry returns, for each of the 29 kinds of Common, the procedure
\* named for that kind, and null for every other kind: once the walk has asked
\* the registry about a node, the answer is the procedure of the member whose
\* kind the node has, and it is null exactly when no member has that kind.
C1_RegistryOwnsExactlyCommon ==
    /\ Cardinality({Common[m] : m \in DOMAIN Common}) = 29
    /\ fn # "none" =>
          /\ \A m \in DOMAIN Common :
                current.node.type = Common[m] => fn = "print" \o m
          /\ fn = "null" <=> \A m \in DOMAIN Common : current.node.type # Common[m]

\* The registry was asked about a kind it owns and about a kind it does not.
C1_Witness ==
    \/ fn = "printLambdaBindings" /\ current.node.type = "lambda_bindings"
    \/ fn = "null" /\ current.node.type = "loop_expression"

\* The document of the i-th (from 0) formatting-significant child of the node
\* the walk is at, and whether a procedure has returned for that node.
childDoc(i) == print(nfPath(current.node, i))
printed == out # NoDoc
returnedBy(f) == fn = f /\ printed

\* A formatting-significant child count that contradicts the kind's contract.
malformed ==
    \/ current.node.type = Common.FunctionType /\ arity > 2
    \/ current.node.type = Common.ExpressionField /\ arity \notin {1, 2}
    \/ current.node.type \in {Common.Alias, Common.BindFields, Common.BlockIdentifier}
       /\ arity = 0

\* C2: a procedure called on a node whose formatting-significant child count
\* contradicts its kind's contract ends in a hard failure and never returns a
\* document.
C2_MalformedNodeFails == printed /\ malformed => out = Fault

\* C3: printing a function_type with no formatting-significant child returns
\* the text "||"; with one child, that child's document and no arrow; with
\* two, the two documents in source order with one " -> " between them.
C3_FunctionTypeByChildCount ==
    returnedBy("printFunctionType") =>
        /\ arity = 0 => out = Text("||")
        /\ arity = 1 => out = childDoc(0)
        /\ arity = 2 => out = Concat(<<childDoc(0), Text(" -> "), childDoc(1)>>)

\* A function type with parameters and a return type has been printed.
C3_Witness ==
    /\ returnedBy("printFunctionType")
    /\ arity = 2
    /\ out.parts[2] = Text(" -> ")
\* The documents of all formatting-significant children of the node the walk
\* is at, in source order.
RECURSIVE childDocsFrom(_)
childDocsFrom(i) == IF i >= arity THEN <<>> ELSE <<childDoc(i)>> \o childDocsFrom(i + 1)
childDocs == childDocsFrom(0)

\* The tail of a layout: its last n tokens (fewer when it is shorter).
tail(l, n) == SubSeq(l, IF Len(l) > n THEN Len(l) - n + 1 ELSE 1, Len(l))

\* C4: the document of a tuple_type is one group with shouldBreak false that
\* holds "(", the element documents separated by a comma and a line, an
\* if-break that is "," when broken and nothing when flat, and ")"; so a flat
\* layout has no comma before ")" and a broken layout has exactly one comma
\* after the last element.
C4_TupleTypeTrailingComma ==
    returnedBy("printTupleType") =>
        LET contents ==
                Concat(<<Text("("),
                         indent(softline),
                         indent(join(Concat(<<Text(","), line>>), childDocs)),
                         ifBreak(Text(","), Text("")),
                         softline,
                         Text(")")>>)
        IN  /\ out = group(contents, FALSE)
            /\ layouts(out, MODE_BREAK)
                  = layouts(contents, MODE_FLAT) \cup layouts(contents, MODE_BREAK)
            /\ \A l \in layouts(contents, MODE_FLAT) :
                  /\ tail(l, 1) = <<")">>
                  /\ tail(l, 2) # <<",", ")">>
                  /\ \A i \in 1..Len(l) : l[i] # NEWLINE
            /\ \A l \in layouts(contents, MODE_BREAK) :
                  /\ tail(l, 3) = <<",", NEWLINE, ")">>
                  /\ tail(l, 4) # <<",", ",", NEWLINE, ")">>
            /\ layouts(contents, MODE_FLAT) # {}
            /\ layouts(contents, MODE_BREAK) # {}

\* A tuple type of several elements has been printed.
C4_Witness ==
    /\ returnedBy("printTupleType")
    /\ arity >= 2
    /\ out.k = "group"
    /\ \E l \in layouts(out, MODE_BREAK) : tail(l, 3) = <<",", NEWLINE, ")">>
    /\ \E l \in layouts(out, MODE_BREAK) : tail(l, 1) = <<")">> /\ tail(l, 2) # <<",", ")">>
\* The previous sibling of the i-th (from 0) formatting-significant child is
\* the mut token.
mutBefore(i) == nfPath(current.node, i).previousSibling.type = "mut"

\* The document printBindField gives the i-th child: prefixed iff mut precedes.
fieldPart(i) ==
    IF mutBefore(i) THEN Concat(<<Text("mut "), childDoc(i)>>) ELSE childDoc(i)

RECURSIVE fieldPartsFrom(_)
fieldPartsFrom(i) == IF i >= arity THEN <<>> ELSE <<fieldPart(i)>> \o fieldPartsFrom(i + 1)

\* The sole child of the node the walk is at is the rest-pattern token.
soleRest == Len(current.node.children) = 1 /\ child(current.node, 0).type = ".."

C6_BindFieldRestOrJoined ==
    returnedBy("printBindField") /\ out # Fault =>
        /\ out = Text("..") <=> soleRest
        /\ ~soleRest =>
              /\ out = join(Text(": "), fieldPartsFrom(0))
              /\ Len(out.parts) = (IF arity = 0 THEN 0 ELSE 2 * arity - 1)
              /\ \A i \in 0..(arity - 1) :
                    out.parts[2 * i + 1] \in {childDoc(i), Concat(<<Text("mut "), childDoc(i)>>)}
              /\ \A i \in 1..(arity - 1) : out.parts[2 * i] = Text(": ")

\* A rest pattern has been printed, and a field with its bound value.
C6_Witness ==
    /\ returnedBy("printBindField")
    /\ \/ soleRest /\ out = Text("..")
       \/ arity = 2 /\ out = Concat(<<Text("f"), Text(": "), childDoc(1)>>)
\* The group a field-list procedure wraps its list in, the delimiters and the
\* interior whitespace it asks the list helper for.
fieldListProcedures ==
    {"printBindNamedFields", "printBindPositionalFields", "printFieldInitializeList"}
fieldGroup == IF fn = "printBindPositionalFields" THEN out ELSE out.parts[2]
fieldOpen == IF fn = "printBindPositionalFields" THEN "(" ELSE "{"
fieldClose == IF fn = "printBindPositionalFields" THEN ")" ELSE "}"
fieldEnding == IF fn = "printBindPositionalFields" THEN softline ELSE line

\* shouldForceBreak on the node the walk is at: its first field was written on
\* a line of its own.
shouldForceBreak == arity > 0 /\ nfPath(current.node, 0).node.startsOnNewLine

\* The layouts with every field from the i-th on a line of its own, each
\* followed by a comma.
RECURSIVE rowsFrom(_)
rowsFrom(i) ==
    IF i >= arity THEN {<<>>}
    ELSE cat(cat(layouts(childDoc(i), MODE_BREAK), {<<",", NEWLINE>>}), rowsFrom(i + 1))

\* C7: bind_named_fields, bind_positional_fields and field_initialize_list wrap
\* their delimited list in a group whose shouldBreak equals shouldForceBreak on
\* the node: when it is true every layout has each field on its own line,
\* whatever the width; when it is false the renderer may lay the list out flat
\* or broken.
C7_ForcedBreakFollowsFirstChild ==
    fn \in fieldListProcedures /\ printed /\ out # Fault =>
        LET contents ==
                Concat(<<Text(fieldOpen),
                         indent(fieldEnding),
                         indent(join(Concat(<<Text(","), line>>), childDocs)),
                         ifBreak(Text(","), Text("")),
                         fieldEnding,
                         Text(fieldClose)>>)
            broken == cat({<<fieldOpen, NEWLINE>>}, cat(rowsFrom(0), {<<fieldClose>>}))
        IN  /\ fieldGroup = group(contents, shouldForceBreak)
            /\ fn # "printBindPositionalFields" => out = Concat(<<Text(" "), fieldGroup>>)
            /\ shouldForceBreak =>
                  /\ layouts(fieldGroup, MODE_FLAT) = broken
                  /\ layouts(fieldGroup, MODE_BREAK) = broken
            /\ ~shouldForceBreak /\ arity > 0 =>
                  /\ layouts(fieldGroup, MODE_BREAK)
                        = layouts(contents, MODE_FLAT) \cup broken
                  /\ layouts(contents, MODE_FLAT) \cap broken = {}
                  /\ (\A i \in 0..(arity - 1) : layouts(childDoc(i), MODE_FLAT) # {})
                        => layouts(contents, MODE_FLAT) # {} /\ broken # {}

\* Named fields whose first field starts a line have been printed, forced broken.
C7_Witness ==
    /\ returnedBy("printBindNamedFields")
    /\ arity >= 2
    /\ shouldForceBreak
    /\ fieldGroup.brk
    /\ \A l \in layouts(fieldGroup, MODE_BREAK) : l[2] = NEWLINE

\* The documents of all raw children of the node the walk is at, tokens and
\* comments included, in source order.
RECURSIVE rawChildDocsFrom(_)
rawChildDocsFrom(i) ==
    IF i > Len(current.node.children) THEN <<>>
    ELSE <<print(ChildPath(current.node, i))>> \o rawChildDocsFrom(i + 1)

\* C8 as claimed: a printed module_access is the concatenation of the
\* documents of exactly its formatting-significant children; no child outside
\* that view is printed.
C8_OnlySignificantChildren ==
    returnedBy("printModuleAccess") => out = Concat(childDocs)

\* C8, amended: a printed module_access is the concatenation, in source order
\* and with no separator, of the documents of all its raw children, each
\* printed once: the path separators and any other child outside the
\* formatting-significant view included.
C8_AllRawChildren ==
    returnedBy("printModuleAccess") =>
        /\ out = Concat(rawChildDocsFrom(1))
        /\ Len(out.parts) = Len(current.node.children)
        /\ \A i \in 1..Len(current.node.children) :
              ~current.node.children[i].isNamed =>
                  out.parts[i] = Text(current.node.children[i].text)

\* A module access with a path separator between two names has been printed.
C8_Witness ==
    /\ returnedBy("printModuleAccess")
    /\ arity = 2
    /\ Len(current.node.children) = 3
    /\ out = Concat(<<Text("a"), Text("::"), Text("b")>>)

\* C9: a printed ref_type is a group of the marker text and the referenced
\* type's document; the marker text is "&" when the first child is the plain
\* marker and "&mut " when it is the mutable marker, so the layouts are "&T"
\* and "&mut T", and no other marker text is emitted.
C9_RefTypeMarker ==
    returnedBy("printRefType") /\ out # Fault =>
        LET marker == child(current.node, 0).type
        IN  /\ marker = "&" => out = group(Concat(<<Text("&"), childDoc(0)>>), FALSE)
            /\ marker = "&mut" => out = group(Concat(<<Text("&mut "), childDoc(0)>>), FALSE)
            /\ out.parts[1].parts[1] \in {Text("&"), Text("&mut ")}
            /\ marker = "&mut" /\ childDoc(0) = Concat(<<Text("T")>>) =>
                  layouts(out, MODE_BREAK) = {<<"&mut ", "T">>}
            /\ marker = "&" /\ childDoc(0) = Concat(<<Text("T")>>) =>
                  layouts(out, MODE_BREAK) = {<<"&", "T">>}

\* A mutable reference to T has been printed.
C9_Witness ==
    /\ returnedBy("printRefType")
    /\ child(current.node, 0).type = "&mut"
    /\ layouts(out, MODE_BREAK) = {<<"&mut ", "T">>}

lex(layout) == SelectSeq(layout, LAMBDA t : t \notin {" ", NEWLINE})

count(ts, toks) == Cardinality({i \in 1..Len(ts) : ts[i] \in toks})

\* The whole input expression has been printed.
expressionPrinted == printed /\ path = <<>> /\ tree \in ExpressionRoots

\* The field access is on the last branch of the conditional t.
fieldOnLastBranch(t) ==
    /\ t.type = Expression.IfExpression
    /\ Last(t.children).type = Expression.DotExpression

hookEvents == SelectSeq(log, LAMBDA e : e.who # 0)

RECURSIVE expectedFrom(_)
expectedFrom(i) ==
    IF i > Len(plugins) THEN <<>>
    ELSE (IF hook \in plugins[i].hooks
          THEN <<Event("invoke", i), Event("complete", i)>>
          ELSE <<>>)
         \o expectedFrom(i + 1)

expectedHookEvents == expectedFrom(1)

\* The default logic of the operation has begun.
defaultBegun ==
    /\ pc \notin {"idle", "runHook", "hook"}
    /\ log = <<>> \/ Last(log).what # "throw"

\* C12: in each of the six operations the plugins' hooks of its name are
\* invoked once each, in registration order, each completing before the next
\* is invoked, and all of them before the default logic calls the client or
\* changes the block data; a plugin without the hook is passed over, and
\* after a hook that throws no hook and no default logic runs.
C12_HooksBeforeDefault ==
    /\ [](/\ Len(hookEvents) <= Len(expectedHookEvents)
          /\ \A j \in 1..Len(hookEvents) :
                \/ hookEvents[j] = expectedHookEvents[j]
                \/ /\ j = Len(hookEvents)
                   /\ expectedHookEvents[j].what = "complete"
                   /\ hookEvents[j] = Event("throw", expectedHookEvents[j].who)
          /\ \A j \in 1..Len(log) :
                /\ log[j].who = 0 =>
                      /\ hookEvents = expectedHookEvents
                      /\ j > Len(expectedHookEvents)
                /\ log[j].what = "throw" => j = Len(log) /\ pc = "threw"
          /\ pc = "returned" => hookEvents = expectedHookEvents
          /\ defaultBegun => hookEvents = expectedHookEvents)
    /\ [][/\ blockData' # blockData /\ pc # "hook" => hookEvents = expectedHookEvents
          /\ pc' \notin {"idle", "runHook", "hook", "returned", "threw"}
                => hookEvents = expectedHookEvents
          /\ hook # "none" => hook' = hook]_txvars

\* Two plugins' hooks have run in order and the default logic after them has
\* called the client and changed the block data.
C12_Witness ==
    /\ pc = "returned"
    /\ Len(hookEvents) = 4
    /\ \E j \in 1..Len(log) : log[j] = Event("client", 0)
    /\ Last(log) = Event("write", 0)
    /\ blockData # atCall

resolvedKinds == {"SharedObject", "Receiving", "ImmOrOwnedObject"}

\* An object the client was asked for reported an error.
errorReported == \E j \in 1..Len(response) : response[j].error

\* The input list is as it was in the block data `was`.
inputsAsIn(was) == blockData.inputs = was.inputs

\* The input list is that of `was` with its unresolved objects resolved.
inputsResolvedFrom(was) ==
    /\ Len(blockData.inputs) = Len(was.inputs)
    /\ \A i \in 1..Len(blockData.inputs) :
          /\ blockData.inputs[i].kind # "UnresolvedObject"
          /\ IF was.inputs[i].kind = "UnresolvedObject"
             THEN /\ blockData.inputs[i].kind \in resolvedKinds
                  /\ blockData.inputs[i].value.hex = was.inputs[i].value.hex
                  /\ blockData.inputs[i].value.form = "padded"
             ELSE blockData.inputs[i] = was.inputs[i]

\* C13 as claimed: resolveObjectReferences that fails on an object reporting
\* an error leaves every input as it was before the call; when it succeeds
\* the list is the one before the call with each unresolved object replaced
\* in its place by a reference to the same object.
C13_AllOrNothingSinceCall ==
    hook = "resolveObjectReferences" =>
        /\ pc = "threw" /\ defaultBegun /\ errorReported => inputsAsIn(atCall)
        /\ pc = "returned" => inputsResolvedFrom(atCall)

\* C13, amended: the same, of the input list as the plugins' hooks left it:
\* on an object reporting an error the call fails and every input is as the
\* hooks left it; on success the list has the same length, holds no
\* unresolved object, each input the hooks left unresolved is replaced in
\* its place by a shared, receiving or owned reference to the same object,
\* and every other input is unchanged in its place.
C13_AllOrNothingSinceHooks ==
    hook = "resolveObjectReferences" =>
        /\ defaultBegun /\ errorReported => pc = "threw" /\ inputsAsIn(atDefault)
        /\ pc = "threw" /\ defaultBegun => inputsAsIn(atDefault)
        /\ pc = "returned" => inputsResolvedFrom(atDefault)

\* Two unresolved objects have been resolved, to different kinds of reference.
C13_Witness ==
    /\ hook = "resolveObjectReferences"
    /\ pc = "returned"
    /\ Len(response) = 2
    /\ \E i, j \in 1..Len(blockData.inputs) :
          /\ atDefault.inputs[i].kind = "UnresolvedObject"
          /\ atDefault.inputs[j].kind = "UnresolvedObject"
          /\ blockData.inputs[i].kind = "SharedObject"
          /\ blockData.inputs[j].kind = "Receiving"

\* The coins of the client's answer that are not an owned input of the
\* transaction, by their places in the answer.
eligible ==
    {c \in 1..Len(response) :
        \A i \in 1..Len(blockData.inputs) :
            blockData.inputs[i].kind = "ImmOrOwnedObject"
                => blockData.inputs[i].value # response[c].coinObjectId}

=============================================================================
